---- MODULE Spec2Model ----
(***************************************************************************)
(* Model of src/env.rs: DeltaEnv::init and the pager resolver              *)
(* get_pager_from_env.                                                     *)
(*                                                                         *)
(* A string is a sequence of one-character strings.  An Option<T> is a     *)
(* sequence of length 0 (None) or 1 (Some(x) == <<x>>).  A                 *)
(* Result<Vec<String>, ParseError> is a record [ok, parts].                *)
(***************************************************************************)
EXTENDS Integers, Sequences, FiniteSets, TLC

VARIABLES environ, args0, pagers, pc, nset

vars == <<environ, args0, pagers, pc, nset>>

\* Number of env::set_var calls a locked test section makes before init.
MaxSetVars == 1

None == <<>>
Some(x) == <<x>>

----------------------------------------------------------------------------
(* String literals used by the code and by the modelled environments.      *)

less == <<"l","e","s","s">>
more == <<"m","o","r","e">>
most == <<"m","o","s","t">>

BAT_PAGER == "BAT_PAGER"
PAGER == "PAGER"
DELTA_PAGER == "DELTA_PAGER"

EnvNames == {BAT_PAGER, PAGER, DELTA_PAGER}

s_empty == <<>>
s_space == <<" ">>
s_more_path_args == <<"/","b","/","m","o","r","e"," ","-","s">>
s_most_exe == <<"m","o","s","t",".","e","x","e">>
s_more_two_ext == <<"m","o","r","e",".","t",".","z">>
s_less_args == <<"l","e","s","s"," ","-","R"," ","-","F"," ","-","X">>
s_sh_cat == <<"/","b","i","n","/","s","h"," ","-","c"," ","\"","c","a","t","\"">>
s_sh_head_cat == <<"/","b","i","n","/","s","h"," ","-","c"," ","\"","h","e","a","d",
                   " ","-","1"," ","|"," ","c","a","t","\"">>
s_bat == <<"b","a","t">>
s_cat == <<"c","a","t">>
s_delta == <<"d","e","l","t","a">>
s_delta_rel_args == <<".","/","d","e","l","t","a"," ","-","-","x">>
s_delta_path == <<"/","b","/","d","e","l","t","a">>
s_delta_exe == <<"d","e","l","t","a",".","e","x","e">>
s_unterminated_dq == <<"\"","c","a","t">>
s_unterminated_sq == <<"'">>
s_quoted_more == <<"\"","m","o","r","e","\""," ","-","s">>
s_comment == <<"#","x">>
s_empty_quoted == <<"\"","\"">>
s_dotdot == <<".",".">>
s_escaped_most == <<"m","o","\\","s","t">>
s_trailing_backslash == <<"a","\\">>
s_two_spaces_more == <<" "," ","m","o","r","e","\t","-","d">>

\* Values the pager variables BAT_PAGER and PAGER may hold when set.
PagerStrings ==
  { s_empty, s_space, more, most, s_more_path_args, s_most_exe,
    s_more_two_ext, s_less_args, s_sh_cat, s_bat, s_cat, s_delta,
    s_delta_rel_args, s_unterminated_dq, s_unterminated_sq, s_quoted_more,
    s_comment, s_empty_quoted, s_dotdot, s_escaped_most,
    s_trailing_backslash, s_two_spaces_more }

\* Values DELTA_PAGER may hold when set.
DeltaPagerStrings == { s_empty, s_unterminated_dq, more, s_delta, s_sh_head_cat }

\* Values of the first process argument (None: argv is empty).
Args0Values ==
  { None, Some(s_delta), Some(s_delta_path), Some(s_delta_exe),
    Some(less), Some(more), Some(s_dotdot) }

ValuesOf(name) == IF name = DELTA_PAGER THEN DeltaPagerStrings ELSE PagerStrings

OptionOf(S) == {None} \cup { Some(x) : x \in S }

----------------------------------------------------------------------------
(* shell_words::split (called at env.rs line 202): the crate's state       *)
(* machine over the characters of the command.  The modelled alphabet has  *)
(* no backquote, the fourth character a backslash escapes inside double    *)
(* quotes.                                                                 *)

Ok(words) == [ok |-> TRUE, parts |-> words]
Err == [ok |-> FALSE, parts |-> <<>>]

IsBlank(c) == c \in {" ", "\t", "\n"}

RECURSIVE split_from(_, _, _, _, _)
split_from(s, i, state, word, words) ==
  LET eof == i > Len(s)
      c == IF eof THEN "" ELSE s[i]
      go(st, w, ws) == split_from(s, i + 1, st, w, ws)
  IN
  CASE state = "Delimiter" ->
         IF eof THEN Ok(words)
         ELSE IF c = "'" THEN go("SingleQuoted", word, words)
         ELSE IF c = "\"" THEN go("DoubleQuoted", word, words)
         ELSE IF c = "\\" THEN go("Backslash", word, words)
         ELSE IF IsBlank(c) THEN go("Delimiter", word, words)
         ELSE IF c = "#" THEN go("Comment", word, words)
         ELSE go("Unquoted", Append(word, c), words)
    [] state = "Backslash" ->
         IF eof THEN Ok(Append(words, Append(word, "\\")))
         ELSE IF c = "\n" THEN go("Delimiter", word, words)
         ELSE go("Unquoted", Append(word, c), words)
    [] state = "Unquoted" ->
         IF eof THEN Ok(Append(words, word))
         ELSE IF c = "'" THEN go("UnquotedSingleQuoted", word, words)
         ELSE IF c = "\"" THEN go("UnquotedDoubleQuoted", word, words)
         ELSE IF c = "\\" THEN go("UnquotedBackslash", word, words)
         ELSE IF IsBlank(c) THEN go("Delimiter", <<>>, Append(words, word))
         ELSE go("Unquoted", Append(word, c), words)
    [] state = "UnquotedBackslash" ->
         IF eof THEN Ok(Append(words, Append(word, "\\")))
         ELSE IF c = "\n" THEN go("Unquoted", word, words)
         ELSE go("Unquoted", Append(word, c), words)
    [] state \in {"SingleQuoted", "UnquotedSingleQuoted"} ->
         IF eof THEN Err
         ELSE IF c = "'" THEN go("Unquoted", word, words)
         ELSE go(state, Append(word, c), words)
    [] state \in {"DoubleQuoted", "UnquotedDoubleQuoted"} ->
         IF eof THEN Err
         ELSE IF c = "\"" THEN go("Unquoted", word, words)
         ELSE IF c = "\\" THEN
           go(IF state = "DoubleQuoted" THEN "DoubleQuotedBackslash"
              ELSE "UnquotedDoubleQuotedBackslash", word, words)
         ELSE go(state, Append(word, c), words)
    [] state \in {"DoubleQuotedBackslash", "UnquotedDoubleQuotedBackslash"} ->
         LET back == IF state = "DoubleQuotedBackslash" THEN "DoubleQuoted"
                     ELSE "UnquotedDoubleQuoted"
         IN IF eof THEN Err
            ELSE IF c = "\n" THEN go(back, word, words)
            ELSE IF c \in {"$", "\"", "\\"} THEN go(back, Append(word, c), words)
            ELSE go(back, Append(Append(word, "\\"), c), words)
    [] state = "Comment" ->
         IF eof THEN Ok(words)
         ELSE IF c = "\n" THEN go("Delimiter", word, words)
         ELSE go("Comment", word, words)

split(s) == split_from(s, 1, "Delimiter", <<>>, <<>>)

----------------------------------------------------------------------------
(* std::path::Path::file_stem (called at env.rs lines 205 and 209), for    *)
(* Unix paths: the last path component, if it is a normal one, cut before  *)
(* its last dot unless that dot is its first character.                    *)

\* The "/"-separated segments of a path, empty ones included.
RECURSIVE segments_from(_, _, _, _)
segments_from(path, i, seg, segs) ==
  IF i > Len(path) THEN Append(segs, seg)
  ELSE IF path[i] = "/" THEN segments_from(path, i + 1, <<>>, Append(segs, seg))
  ELSE segments_from(path, i + 1, Append(seg, path[i]), segs)

segments(path) == segments_from(path, 1, <<>>, <<>>)

\* Path::components: empty segments vanish, and so does every "." that is
\* not the very first segment of the path.
components(path) ==
  LET segs == segments(path)
      keep(k) == /\ segs[k] # <<>>
                 /\ (segs[k] = <<".">> => k = 1)
  IN SelectSeq([k \in 1..Len(segs) |-> <<k, segs[k]>>], LAMBDA e : keep(e[1]))

file_name(path) ==
  LET comps == components(path)
  IN IF comps = <<>> THEN None
     ELSE LET last == comps[Len(comps)][2]
          IN IF last \in {<<".">>, <<".", ".">>} THEN None ELSE Some(last)

\* Index of the last "." in a file name, 0 if there is none.
last_dot(name) ==
  LET dots == { k \in 1..Len(name) : name[k] = "." }
  IN IF dots = {} THEN 0 ELSE CHOOSE k \in dots : \A j \in dots : j <= k

file_stem(path) ==
  LET fname == file_name(path)
  IN IF fname = None THEN None
     ELSE LET name == fname[1]
              k == last_dot(name)
          IN IF k <= 1 THEN Some(name) ELSE Some(SubSeq(name, 1, k - 1))

----------------------------------------------------------------------------
(* get_pager_from_env and its parts.                                       *)

\* env::var(name): Ok(value) when the variable is set, Err otherwise.
env_var(env, name) == env[name]

\* The (cmd, from_pager_env) match at the head of get_pager_from_env.
select_cmd_skip_empty(bat_pager, pager) ==
  IF bat_pager # None /\ bat_pager[1] # <<>>
    THEN [cmd |-> bat_pager[1], from_pager_env |-> FALSE]
  ELSE IF pager # None THEN [cmd |-> pager[1], from_pager_env |-> TRUE]
  ELSE [cmd |-> less, from_pager_env |-> FALSE]

select_cmd(bat_pager, pager) ==
  IF bat_pager # None THEN [cmd |-> bat_pager[1], from_pager_env |-> FALSE]
  ELSE IF pager # None THEN [cmd |-> pager[1], from_pager_env |-> TRUE]
  ELSE [cmd |-> less, from_pager_env |-> FALSE]

\* current_bin.map(|s| Path::new(&s).file_stem() == pager_bin).unwrap_or(false)
is_current_bin_pager_raw_path(current_bin, pager_bin) ==
  IF current_bin = None THEN FALSE ELSE Some(current_bin[1]) = pager_bin

is_current_bin_pager(current_bin, pager_bin) ==
  IF current_bin = None THEN FALSE ELSE file_stem(current_bin[1]) = pager_bin

is_problematic_pager_more_only(from_pager_env, pager_bin, is_current_bin) ==
  IF from_pager_env
    THEN IF pager_bin = Some(more) THEN TRUE
         ELSE IF is_current_bin THEN TRUE
         ELSE FALSE
    ELSE FALSE

is_problematic_pager_any_source(from_pager_env, pager_bin, is_current_bin) ==
  IF pager_bin \in {Some(more), Some(most)} THEN TRUE
  ELSE IF is_current_bin THEN TRUE
  ELSE FALSE

is_problematic_pager_recursion_any_source(from_pager_env, pager_bin, is_current_bin) ==
  IF is_current_bin THEN TRUE
  ELSE IF from_pager_env THEN pager_bin \in {Some(more), Some(most)}
  ELSE FALSE

is_problematic_pager_no_recursion_arm(from_pager_env, pager_bin, is_current_bin) ==
  IF from_pager_env THEN pager_bin \in {Some(more), Some(most)} ELSE FALSE

is_problematic_pager(from_pager_env, pager_bin, is_current_bin) ==
  IF from_pager_env
    THEN IF pager_bin \in {Some(more), Some(most)} THEN TRUE
         ELSE IF is_current_bin THEN TRUE
         ELSE FALSE
    ELSE FALSE

\* The final if/else: "less" for a problematic pager, else the command as is.
resolve_bin_only(cmd, bin, problematic) ==
  IF problematic THEN Some(less) ELSE Some(bin)

resolve(cmd, bin, problematic) ==
  IF problematic THEN Some(less) ELSE Some(cmd)

get_pager_from_env_err_absent(env, current_bin) ==
  LET sel == select_cmd(env_var(env, BAT_PAGER), env_var(env, PAGER))
      split_result == split(sel.cmd)
  IN IF split_result.ok
       THEN IF split_result.parts # <<>>
              THEN LET bin == split_result.parts[1]
                       pager_bin == file_stem(bin)
                   IN resolve(sel.cmd, bin,
                        is_problematic_pager(sel.from_pager_env, pager_bin,
                          is_current_bin_pager(current_bin, pager_bin)))
              ELSE Some(less)
       ELSE None

get_pager_from_env_no_parts_cmd(env, current_bin) ==
  LET sel == select_cmd(env_var(env, BAT_PAGER), env_var(env, PAGER))
      split_result == split(sel.cmd)
  IN IF split_result.ok
       THEN IF split_result.parts # <<>>
              THEN LET bin == split_result.parts[1]
                       pager_bin == file_stem(bin)
                   IN resolve(sel.cmd, bin,
                        is_problematic_pager(sel.from_pager_env, pager_bin,
                          is_current_bin_pager(current_bin, pager_bin)))
              ELSE Some(sel.cmd)
       ELSE Some(less)

get_pager_from_env_delta_first(env, current_bin) ==
  LET sel == IF env_var(env, DELTA_PAGER) # None
               THEN [cmd |-> env_var(env, DELTA_PAGER)[1], from_pager_env |-> FALSE]
               ELSE select_cmd(env_var(env, BAT_PAGER), env_var(env, PAGER))
      split_result == split(sel.cmd)
  IN IF split_result.ok
       THEN IF split_result.parts # <<>>
              THEN LET bin == split_result.parts[1]
                       pager_bin == file_stem(bin)
                   IN resolve(sel.cmd, bin,
                        is_problematic_pager(sel.from_pager_env, pager_bin,
                          is_current_bin_pager(current_bin, pager_bin)))
              ELSE Some(less)
       ELSE Some(less)

get_pager_from_env(env, current_bin) ==
  LET sel == select_cmd(env_var(env, BAT_PAGER), env_var(env, PAGER))
      split_result == split(sel.cmd)
  IN IF split_result.ok
       THEN IF split_result.parts # <<>>
              THEN LET bin == split_result.parts[1]
                       pager_bin == file_stem(bin)
                   IN resolve(sel.cmd, bin,
                        is_problematic_pager(sel.from_pager_env, pager_bin,
                          is_current_bin_pager(current_bin, pager_bin)))
              ELSE Some(less)
       ELSE Some(less)

----------------------------------------------------------------------------
(* The state machine: one locked section of a process.  The environment    *)
(* table and argv are ambient; env::set_var may change the table before    *)
(* DeltaEnv::init takes its snapshot.                                      *)

TypeOK ==
  /\ environ \in [EnvNames -> OptionOf(PagerStrings \cup DeltaPagerStrings)]
  /\ args0 \in Args0Values
  /\ pc \in {"start", "done"}
  /\ nset \in 0..MaxSetVars

Init ==
  /\ environ \in [EnvNames -> OptionOf(PagerStrings \cup DeltaPagerStrings)]
  /\ \A name \in EnvNames : environ[name] \in OptionOf(ValuesOf(name))
  /\ args0 \in Args0Values
  /\ pagers = <<None, None>>
  /\ pc = "start"
  /\ nset = 0

\* env::set_var(name, value)
set_var(name, value) ==
  /\ pc = "start"
  /\ nset < MaxSetVars
  /\ environ' = [environ EXCEPT ![name] = Some(value)]
  /\ nset' = nset + 1
  /\ UNCHANGED <<args0, pagers, pc>>

\* DeltaEnv::init()
DeltaEnv_init ==
  /\ pc = "start"
  /\ pagers' = <<env_var(environ, DELTA_PAGER), get_pager_from_env(environ, args0)>>
  /\ pc' = "done"
  /\ UNCHANGED <<environ, args0, nset>>

Next ==
  \/ \E name \in EnvNames : \E value \in ValuesOf(name) : set_var(name, value)
  \/ DeltaEnv_init

Spec == Init /\ [][Next]_vars

----------------------------------------------------------------------------
(* Properties.                                                             *)

Done == pc = "done"

bat_pager_value == environ[BAT_PAGER]
pager_value == environ[PAGER]
delta_pager_value == environ[DELTA_PAGER]

\* A command is well formed when it tokenizes to at least one token.
WellFormed(c) == split(c).ok /\ split(c).parts # <<>>

\* File stem of the executable (first token) of a well-formed command.
ExecStem(c) == file_stem(split(c).parts[1])

KnownBad(c) == WellFormed(c) /\ ExecStem(c) \in {Some(more), Some(most)}

\* The command's executable has the file stem of the invoking program.
NamesInvoker(c) ==
  WellFormed(c) /\ args0 # None /\ ExecStem(c) = file_stem(args0[1])

\* The candidate the resolver inspects, and where it came from.
Candidate == select_cmd(bat_pager_value, pager_value)

\* C1: the resolver is total: after DeltaEnv::init, pagers.1 is present and
\* is a non-empty string, whatever BAT_PAGER, PAGER and argv[0] are.
C1_Total == Done => pagers[2] # None /\ pagers[2][1] # <<>>

C1_Witness ==
  /\ Done
  /\ bat_pager_value = None
  /\ pager_value = Some(s_unterminated_dq)
  /\ args0 = None
  /\ pagers[2] = Some(less)

\* C2: verbatim preservation: the result is either "less" or exactly the
\* candidate string, and it is the candidate string whenever the candidate
\* is well formed and not flagged problematic.
C2_Verbatim ==
  Done =>
    /\ pagers[2] \in {Some(less), Some(Candidate.cmd)}
    /\ (WellFormed(Candidate.cmd)
        /\ ~is_problematic_pager(Candidate.from_pager_env, ExecStem(Candidate.cmd),
              is_current_bin_pager(args0, ExecStem(Candidate.cmd))))
       => pagers[2] = Some(Candidate.cmd)
    /\ (bat_pager_value = None /\ pager_value \in {Some(s_sh_cat), Some(s_less_args)}
          /\ ~NamesInvoker(pager_value[1]))
       => pagers[2] = pager_value

C2_Witness ==
  /\ Done
  /\ bat_pager_value = None
  /\ pager_value = Some(s_sh_cat)
  /\ pagers[2] = Some(s_sh_cat)

\* C3: with BAT_PAGER unset and PAGER a well-formed command whose first
\* token has file stem "more" or "most", pagers.1 is the literal "less".
C3_KnownBadFromPager ==
  (Done /\ bat_pager_value = None /\ pager_value # None /\ KnownBad(pager_value[1]))
    => pagers[2] = Some(less)

C3_Witness ==
  /\ Done
  /\ bat_pager_value = None
  /\ pager_value = Some(s_more_path_args)
  /\ pagers[2] = Some(less)

\* C4: with BAT_PAGER a non-empty well-formed command whose executable stem
\* is "more" or "most" and is not the invoking program's stem, pagers.1 is
\* the BAT_PAGER value itself, whatever PAGER is.
C4_OverrideTrusted ==
  (Done /\ bat_pager_value # None /\ bat_pager_value[1] # <<>>
        /\ KnownBad(bat_pager_value[1]) /\ ~NamesInvoker(bat_pager_value[1]))
    => pagers[2] = bat_pager_value

C4_Witness ==
  /\ Done
  /\ bat_pager_value = Some(s_most_exe)
  /\ pager_value = Some(s_less_args)
  /\ args0 = Some(s_delta)
  /\ pagers[2] = Some(s_most_exe)

\* C5: with BAT_PAGER unset and PAGER a command whose executable stem is the
\* invoking program's stem, pagers.1 is "less", also when the stem is not
\* "more" or "most" and whatever arguments follow.
C5_SelfRecursionFromPager ==
  (Done /\ bat_pager_value = None /\ pager_value # None /\ NamesInvoker(pager_value[1]))
    => pagers[2] = Some(less)

C5_Witness ==
  /\ Done
  /\ bat_pager_value = None
  /\ pager_value = Some(s_delta_rel_args)
  /\ args0 = Some(s_delta_path)
  /\ pagers[2] = Some(less)

\* C6 as stated: a BAT_PAGER candidate whose executable stem is the invoking
\* program's stem is replaced by "less".
C6_Original ==
  (Done /\ bat_pager_value # None /\ NamesInvoker(bat_pager_value[1]))
    => pagers[2] = Some(less)

\* C6 amended: the self-recursion guard applies to PAGER-sourced candidates
\* only: a BAT_PAGER candidate whose executable stem is the invoking
\* program's stem is not flagged and is returned verbatim.
C6_OverrideNotGuarded ==
  (Done /\ bat_pager_value # None /\ NamesInvoker(bat_pager_value[1]))
    => pagers[2] = bat_pager_value

C6_Witness ==
  /\ Done
  /\ bat_pager_value = Some(s_delta_rel_args)
  /\ args0 = Some(s_delta_exe)
  /\ pagers[2] = Some(s_delta_rel_args)

\* C7 as stated: BAT_PAGER is the source only if present and non-empty, else
\* PAGER if present, else "less"; with BAT_PAGER empty and PAGER a
\* well-formed non-problematic command the result is PAGER's value.
C7_Original ==
  Done =>
    /\ (bat_pager_value = None /\ pager_value = None) => pagers[2] = Some(less)
    /\ ((bat_pager_value = None \/ bat_pager_value = Some(<<>>))
         /\ pager_value # None /\ WellFormed(pager_value[1])
         /\ ~KnownBad(pager_value[1]) /\ ~NamesInvoker(pager_value[1]))
       => pagers[2] = pager_value
    /\ (bat_pager_value # None /\ bat_pager_value[1] # <<>>
         /\ WellFormed(bat_pager_value[1]))
       => pagers[2] = bat_pager_value

\* C7 amended: BAT_PAGER is the source whenever it is present, empty or not;
\* otherwise PAGER if present (general-sourced); otherwise "less".  With
\* BAT_PAGER set to the empty string the result is "less" whatever PAGER is.
C7_Precedence ==
  Done =>
    /\ (bat_pager_value = None /\ pager_value = None) => pagers[2] = Some(less)
    /\ (bat_pager_value = None /\ pager_value # None /\ WellFormed(pager_value[1]))
       => pagers[2] = IF KnownBad(pager_value[1]) \/ NamesInvoker(pager_value[1])
                        THEN Some(less) ELSE pager_value
    /\ (bat_pager_value # None /\ WellFormed(bat_pager_value[1]))
       => pagers[2] = bat_pager_value
    /\ bat_pager_value = Some(<<>>) => pagers[2] = Some(less)

C7_Witness ==
  /\ Done
  /\ bat_pager_value = Some(<<>>)
  /\ pager_value = Some(s_bat)
  /\ pagers[2] = Some(less)

\* C8: when tokenization of the candidate fails or yields no token, the
\* result is "less", for BAT_PAGER and PAGER candidates alike.
C8_Untokenizable ==
  (Done /\ ~WellFormed(Candidate.cmd)) => pagers[2] = Some(less)

C8_Witness ==
  /\ Done
  /\ bat_pager_value = Some(s_unterminated_sq)
  /\ pager_value = Some(s_bat)
  /\ pagers[2] = Some(less)

\* C9: pagers.0 is the raw DELTA_PAGER value, and pagers.1 is what the
\* resolver yields in every environment that differs from this one in
\* DELTA_PAGER only; with BAT_PAGER unset it is the resolution of PAGER
\* alone.
C9_Separation ==
  Done =>
    /\ pagers[1] = delta_pager_value
    /\ \A d \in OptionOf(DeltaPagerStrings) :
         get_pager_from_env([environ EXCEPT ![DELTA_PAGER] = d], args0) = pagers[2]
    /\ bat_pager_value = None =>
         pagers[2] = get_pager_from_env(
                       [name \in EnvNames |-> IF name = PAGER THEN pager_value ELSE None],
                       args0)

C9_Witness ==
  /\ Done
  /\ delta_pager_value = Some(s_sh_head_cat)
  /\ bat_pager_value = None
  /\ pager_value = Some(s_cat)
  /\ pagers = <<Some(s_sh_head_cat), Some(s_cat)>>

\* File stem of the executable of the resolved command.
ResultStem == ExecStem(pagers[2][1])

\* C10 as stated: the executable stem of the resolved command always
\* differs from the invoking program's stem.
C10_Original ==
  (Done /\ args0 # None) => ResultStem # file_stem(args0[1])

\* C10 amended: the executable stem of the resolved command differs from the
\* invoking program's stem, unless that stem is "less" or the candidate
\* comes from BAT_PAGER and names the invoking program.
C10_NoSelfInvocation ==
  (Done /\ args0 # None /\ file_stem(args0[1]) # Some(less)
        /\ ~(bat_pager_value # None /\ NamesInvoker(bat_pager_value[1])))
    => ResultStem # file_stem(args0[1])

C10_Witness ==
  /\ Done
  /\ bat_pager_value = None
  /\ pager_value = Some(s_delta)
  /\ args0 = Some(s_delta_exe)
  /\ ResultStem = Some(less)

====
